---- MODULE Spec2Model ----
(***************************************************************************)
(* Virtual DOM reconciliation of yew: the component mount state machine    *)
(* (virtual_dom/vcomp.rs) and the positional list reconciler               *)
(* (virtual_dom/vlist.rs), over one host parent element.                   *)
(*                                                                         *)
(* A host node is a positive integer, 0 stands for Option::None.  The host *)
(* parent's child list is the sequence `host`.  A VComp is constructed     *)
(* with the NodeRef and the scope holder its caller passes: a new one, or  *)
(* a clone of one an earlier node was given.  NodeRef cells and holders    *)
(* are named after the node they were first made for.  A generator runs at *)
(* most once, so the instance (Scope<SELF>) a node mounts and the host     *)
(* node created for it are named after the node: instance c, host node     *)
(* HostOfComp(c); likewise HostOfText(t) for the text node of VText t.     *)
(***************************************************************************)
EXTENDS Integers, Sequences, FiniteSets, TLC

\* ---------------------------------------------------------------- bounds
MaxComps == 4        \* component nodes (VComp) that are ever constructed
MaxSolo == 3         \* of these, the ones a run with shared NodeRefs or holders constructs
MaxEdited == 3       \* nodes (components and lists) a run that edits the children of a list constructs
MaxLists == 2        \* list nodes (VList) that are ever constructed
MaxTexts == 2        \* placeholder text nodes (VText) that are ever constructed
NumKinds == 3        \* distinct component types (TypeId values)
MaxMsgs == 1        \* messages the parent's mailbox holds before the model stops sending
MaxForeign == 1      \* host children that belong to no virtual node of the model
MaxTrailing == 1     \* host children that follow the lists of SpecSiblings

Comps == 1..MaxComps
Lists == 1..MaxLists
Texts == 1..MaxTexts
Kinds == 1..NumKinds

VARIABLES
    cstate,     \* cstate[c]: MountState of component node c ("Absent" before VComp::new)
    kind,       \* kind[c]: type_id of component node c (0 before VComp::new)
    mounted,    \* mounted[c]: the Mounted payload held by c's state (NoPayload otherwise)
    nref,       \* nref[c]: the NodeRef c was constructed with (0 before VComp::new)
    href,       \* href[c]: the ScopeHolder c was constructed with (0 before VComp::new)
    holder,     \* holder[h]: TRUE when ScopeHolder h is Some(parent scope)
    cheld,      \* cheld[c]: the caller still owns the handle of c (not moved away)
    cell,       \* cell[r]: content of NodeRef r (0 = None)
    inst,       \* inst[i]: the instance mounted by node i: [life, updates]
    host,       \* children of the host parent, in order
    lstate,     \* lstate[l]: "Absent", "Built", "Applied" (both owned by the caller) or "Moved"
    lnosib,     \* lnosib[l]: VList::no_siblings
    lchildren,  \* lchildren[l]: VList::children, a sequence of node references
    tref,       \* tref[t]: VText::reference of placeholder t (0 = None)
    nTexts,     \* number of VText placeholders constructed
    mailbox,    \* number of messages sent to the parent's mailbox
    panic,      \* "none", or the fatal failure that aborted the program
    last,       \* the call that produced this state: arguments, the state it found, effects, result
    prev        \* the round trip (apply, then detach of the same node) that just ended, if any

vars == <<cstate, kind, mounted, nref, href, holder, cheld, cell, inst, host,
          lstate, lnosib, lchildren, tref, nTexts, mailbox, panic, last, prev>>

NoPayload == [node_ref |-> 0, scope |-> 0]
NoVNode == [t |-> "none", id |-> 0]
CompRef(c) == [t |-> "comp", id |-> c]
ListRef(l) == [t |-> "list", id |-> l]
TextRef(t) == [t |-> "text", id |-> t]

MountStates == {"Unmounted", "Mounted", "Mounting", "Detached", "Overwritten"}

\* The mutable program state as one record, so that the handlers compose.
\* ret is the value the innermost finished call returned, ev the effects so far,
\* seen what the user code run so far found (one entry per mount, update and
\* teardown, in order).
World == [cstate |-> cstate, kind |-> kind, mounted |-> mounted,
          nref |-> nref, href |-> href, holder |-> holder,
          cell |-> cell, inst |-> inst, host |-> host,
          lchildren |-> lchildren, tref |-> tref, nTexts |-> nTexts,
          mailbox |-> mailbox, panic |-> panic, ret |-> 0, ev |-> <<>>,
          seen |-> <<>>]

\* The host node document().create_text_node("") yields in VComp::apply of node c,
\* and in VText::apply of placeholder t.
HostOfComp(c) == MaxForeign + c
HostOfText(t) == MaxForeign + MaxComps + t

Ev(e, x, y, v) == [e |-> e, x |-> x, y |-> y, v |-> v]
Log(w, event) == [w EXCEPT !.ev = Append(@, event)]

\* User code runs (a component is created, updated or torn down): what a call
\* made from it would find is recorded with the effect.
Observe(w, event) ==
    [w EXCEPT !.ev = Append(@, event),
              !.seen = Append(@, [at |-> event, cstate |-> w.cstate,
                                  mounted |-> w.mounted, holder |-> w.holder])]
Fail(w, why) == IF w.panic = "none" THEN [w EXCEPT !.panic = why, !.ret = 0] ELSE w

\* ------------------------------------------------------- host tree adapter
IndexOf(s, x) == IF \E i \in 1..Len(s) : s[i] = x
                 THEN CHOOSE i \in 1..Len(s) : s[i] = x
                 ELSE 0

\* Node::next_sibling: None for the last child and for a node without parent.
NextSibling(s, x) ==
    LET i == IndexOf(s, x)
    IN  IF i = 0 \/ i = Len(s) THEN 0 ELSE s[i + 1]

InsertAt(s, i, x) == SubSeq(s, 1, i - 1) \o <<x>> \o SubSeq(s, i, Len(s))
RemoveAt(s, i) == SubSeq(s, 1, i - 1) \o SubSeq(s, i + 1, Len(s))

\* Element::remove_child(node): an error when node is not a child.
RemoveChild(w, node, why) ==
    LET i == IndexOf(w.host, node)
    IN  IF i = 0 THEN Fail(w, why)
        ELSE [w EXCEPT !.host = RemoveAt(@, i)]

\* Element::insert_before(new, sibling): an error when sibling is not a child.
InsertBefore(w, new, sibling, why) ==
    LET i == IndexOf(w.host, sibling)
    IN  IF i = 0 THEN Fail(w, why)
        ELSE [w EXCEPT !.host = InsertAt(@, i, new)]

AppendChild(w, new) ==
    [w EXCEPT !.host = Append(@, new)]

\* The insertion both VComp::apply and VText::apply perform for Reform::Before(before).
InsertNew(w, new, before, previous_sibling, why1, why2) ==
    IF before # 0
    THEN InsertBefore(w, new, before, why1)
    ELSE LET after == IF previous_sibling = 0 THEN 0
                      ELSE NextSibling(w.host, previous_sibling)
         IN  IF after # 0
             THEN InsertBefore(w, new, after, why2)
             ELSE AppendChild(w, new)

\* ------------------------------------------------------ component runtime
\* Scope::mount_in_place(element, Some(VRef(dummy)), node_ref, props): a new
\* instance is created, its rendered root takes the placeholder's place in the
\* parent (the model keeps the placeholder's identity for it) and the NodeRef
\* the node was constructed with is set to that root.
MountInPlace(w, c, dummy_node) ==
    Observe([w EXCEPT !.inst[c] = [life |-> "alive", updates |-> 0],
                      !.cell[w.nref[c]] = dummy_node,
                      !.ret = c],
            Ev("mount", c, c, NoVNode))

\* scope.update(ComponentUpdate::Properties(props)) on the live instance.
ScopeUpdate(w, i, c) ==
    Observe([w EXCEPT !.inst[i].updates = @ + 1], Ev("update", i, c, NoVNode))

\* scope.destroy(): the teardown action of a Mounted payload.
ScopeDestroy(w, i) ==
    Observe([w EXCEPT !.inst[i].life = "destroyed"], Ev("teardown", i, 0, NoVNode))

\* ------------------------------------------------------------ VComp
\* The generator closure: the scope holder is filled, then the instance is
\* mounted or overwritten.  The payload it returns is left in ret as the
\* instance; its node_ref is always the NodeRef the node c was constructed with.
\* *scope_holder.borrow_mut() = Some(parent)
Activate(w, c) ==
    Log([w EXCEPT !.holder[w.href[c]] = TRUE], Ev("activate", c, 0, NoVNode))

GeneratorMount(w, c, dummy_node) ==
    MountInPlace(Activate(w, c), c, dummy_node)

\* The overwrite arm once the holder is filled.
Overwrite(w, c, type_id, scope) ==
    IF type_id # w.kind[c]
    THEN Fail(w, "overwrite_type")
    ELSE [ScopeUpdate(w, scope, c) EXCEPT !.ret = scope]

GeneratorOverwrite(w, c, type_id, scope) ==
    Overwrite(Activate(w, c), c, type_id, scope)

\* A call that did not panic returned r.
SetRet(w, r) == IF w.panic = "none" THEN [w EXCEPT !.ret = r] ELSE w

\* opt_node.and_then(|node| { let sibling = node.next_sibling();
\*                            parent.remove_child(&node).expect(why); sibling })
RemoveNode(w, node, why) ==
    IF node = 0 THEN w
    ELSE SetRet(RemoveChild(w, node, why), NextSibling(w.host, node))

\* self.state.replace(MountState::Detached)
SetDetached(w, c) ==
    [w EXCEPT !.cstate[c] = "Detached", !.mounted[c] = NoPayload, !.ret = 0]

\* (this.destroyer)(); this.node_ref.get().and_then(...)
DetachMounted(w, this) ==
    RemoveNode(ScopeDestroy(w, this.scope), w.cell[this.node_ref], "remove_component")

\* VComp::detach: the state becomes Detached whatever it was; a Mounted payload is
\* destroyed and the node its node_ref holds is removed from the parent.
VCompDetachKeepsNode(w, c) ==
    IF w.cstate[c] = "Mounted"
    THEN ScopeDestroy(SetDetached(w, c), w.mounted[c].scope)
    ELSE SetDetached(w, c)

VCompDetach(w, c) ==
    IF w.cstate[c] = "Mounted"
    THEN DetachMounted(SetDetached(w, c), w.mounted[c])
    ELSE SetDetached(w, c)

\* ------------------------------------------------------------ VText
\* VText::detach of the placeholder: its host node is removed, the former next
\* sibling is returned.
VTextDetach(w, t) ==
    RemoveNode([w EXCEPT !.tref[t] = 0, !.ret = 0], w.tref[t], "remove_text")

\* VNode::detach for the children a list holds (component nodes and placeholders).
ChildDetach(w, v) ==
    IF v.t = "comp" THEN VCompDetach(w, v.id) ELSE VTextDetach(w, v.id)

\* ------------------------------------------------------------ VList::detach
\* last_sibling = child.detach(parent): the detach of child k returned; one
\* that panicked did not, and the assignment is not reached.
Detached(w, k, child) ==
    IF w.panic # "none" THEN w ELSE Log(w, Ev("drainDetach", k, 0, child))

\* The world after the first i children were detached, in order.
DetachLoop(w, children, i) ==
    LET after[k \in 0..i] ==
            IF k = 0 THEN w
            ELSE IF after[k - 1].panic # "none" THEN after[k - 1]
            ELSE Detached(ChildDetach(after[k - 1], children[k]), k, children[k])
    IN  after[i]

\* for child in children.drain(..) { last_sibling = child.detach(parent) }
VListDetach(w, l) ==
    DetachLoop([w EXCEPT !.lchildren[l] = <<>>, !.ret = 0], w.lchildren[l],
               Len(w.lchildren[l]))

\* VNode::detach
VNodeDetach(w, v) ==
    IF v.t = "list" THEN VListDetach(w, v.id) ELSE ChildDetach(w, v)

\* ------------------------------------------------------------ VComp::apply
\* if self.type_id == vcomp.type_id, for an ancestor that is a VComp
SameTypeNever(w, c, ancestor) == FALSE

SameTypeAlways(w, c, ancestor) == ancestor.t = "comp"

SameType(w, c, ancestor) ==
    ancestor.t = "comp" /\ w.kind[c] = w.kind[ancestor.id]

\* state => { self.state.replace(state); None }
PutBackMounting(w, c, old) == [w EXCEPT !.ret = 0]

PutBack(w, c, old) == [w EXCEPT !.cstate[c] = old, !.ret = 0]

\* self.state.replace(MountState::Mounting)
SetMounting(w, c) == [w EXCEPT !.cstate[c] = "Mounting", !.ret = 0]

\* Reform::Before(before): w is the world after the ancestor was dealt with,
\* w.ret the node `before`.
ReformBefore(w) == [w |-> w, keep |-> FALSE, type_id |-> 0, scope |-> 0]

\* let reform = match ancestor { ... }: the world after the match, and the reform.
\* An ancestor of the same type becomes Overwritten whatever its state was; it
\* yields Reform::Keep(type_id, mounted) only when it was Mounted.
\* vcomp.state.replace(MountState::Overwritten): the state is taken out of
\* the ancestor a, whatever it was.
ReplacedShares(w, a) == w
Replaced(w, a) ==
    [w EXCEPT !.cstate[a] = "Overwritten", !.mounted[a] = NoPayload]

ReformOf(w, c, ancestor) ==
    IF ancestor.t = "comp"
    THEN IF SameType(w, c, ancestor)
         THEN [w |-> Replaced(w, ancestor.id),
               keep |-> w.cstate[ancestor.id] = "Mounted",
               type_id |-> w.kind[ancestor.id],
               scope |-> w.mounted[ancestor.id].scope]
         ELSE ReformBefore(VCompDetach(w, ancestor.id))
    ELSE IF ancestor.t = "none" THEN ReformBefore(w)
    ELSE ReformBefore(VNodeDetach(w, ancestor))

\* this.mount(parent, dummy_node, parent_scope), once the dummy node is inserted
Mount(w, c) ==
    IF w.panic # "none" THEN w ELSE GeneratorMount(w, c, HostOfComp(c))

\* let mounted = match reform { ... }: the payload's scope is left in ret.
MountedOf(r, c, previous_sibling) ==
    IF r.w.panic # "none" THEN r.w
    ELSE IF r.keep
    THEN GeneratorOverwrite(r.w, c, r.type_id, r.scope)
    ELSE Mount(InsertNew(r.w, HostOfComp(c), r.w.ret, previous_sibling,
                         "insert_dummy", "insert_dummy_before_previous"), c)

\* let node = mounted.node_ref.get(); self.state.replace(Mounted(mounted)); node
SetMounted(w, c) ==
    IF w.panic # "none" THEN w
    ELSE [w EXCEPT !.cstate[c] = "Mounted",
                   !.mounted[c] = [node_ref |-> w.nref[c], scope |-> w.ret],
                   !.ret = w.cell[w.nref[c]]]

\* The ancestor is classified (Reform::Keep or Reform::Before), then the
\* generator is run in overwrite or in mount mode; a state other than
\* Unmounted is put back and None is returned.
VCompApply(w, c, previous_sibling, ancestor) ==
    IF w.cstate[c] # "Unmounted"
    THEN PutBack(SetMounting(w, c), c, w.cstate[c])
    ELSE SetMounted(MountedOf(ReformOf(SetMounting(w, c), c, ancestor),
                              c, previous_sibling), c)

\* ------------------------------------------------------------ VText::apply
\* The placeholder text node: a VText ancestor hands its host node over, any
\* other ancestor is detached and a new text node is inserted in its place.
\* the new text node becomes the VText's reference and the result
SetReference(w, t) ==
    IF w.panic # "none" THEN w
    ELSE [w EXCEPT !.tref[t] = HostOfText(t), !.ret = HostOfText(t)]

InsertText(w, t, previous_sibling) ==
    IF w.panic # "none" THEN w
    ELSE SetReference(InsertNew(w, HostOfText(t), w.ret, previous_sibling,
                                "insert_text", "insert_text_before_previous"), t)

\* A VText that still holds a reference is not applied again:
\* assert!(self.reference.is_none(), "reference is ignored so must not be set")
VTextApply(w, t, previous_sibling, ancestor) ==
    IF w.tref[t] # 0
    THEN Fail(w, "text_reference_set")
    ELSE IF ancestor.t = "text"
    THEN [w EXCEPT !.tref[ancestor.id] = 0, !.tref[t] = w.tref[ancestor.id],
                   !.ret = w.tref[ancestor.id]]
    ELSE IF ancestor.t = "none"
    THEN InsertText([w EXCEPT !.ret = 0], t, previous_sibling)
    ELSE InsertText(VNodeDetach(w, ancestor), t, previous_sibling)

\* VNode::apply for the children a list holds.
VNodeApply(w, v, previous_sibling, ancestor) ==
    IF v.t = "comp"
    THEN VCompApply(w, v.id, previous_sibling, ancestor)
    ELSE VTextApply(w, v.id, previous_sibling, ancestor)

\* ------------------------------------------------------------ VList::apply
\* let mut rights = match ancestor { ... }
RightsIgnored(w, ancestor) == <<>>

RightsReversed(w, ancestor) ==
    IF ancestor.t = "list"
    THEN LET r == w.lchildren[ancestor.id] IN [i \in 1..Len(r) |-> r[Len(r) + 1 - i]]
    ELSE IF ancestor.t = "none" THEN <<>>
    ELSE <<ancestor>>

Rights(w, ancestor) ==
    IF ancestor.t = "list" THEN w.lchildren[ancestor.id]
    ELSE IF ancestor.t = "none" THEN <<>>
    ELSE <<ancestor>>

\* if self.children.is_empty() && !self.no_siblings { push(VText::new("")) }
PushPlaceholderNever(w, l, no_siblings) == w

PushPlaceholder(w, l, no_siblings) ==
    IF w.lchildren[l] = <<>> /\ ~no_siblings
    THEN [w EXCEPT !.lchildren[l] = <<TextRef(w.nTexts + 1)>>, !.nTexts = @ + 1]
    ELSE w

\* loop { match (lefts.next(), rights.next()) { ... } }
\* The loop's state: the world and the previous_sibling the next round uses.
Round(w, previous_sibling) == [w |-> w, ps |-> previous_sibling]

\* previous_sibling = left.apply(parent, previous_sibling.as_ref(), right, ..)
Applied(w) == Round(w, w.ret)

\* The apply of child i, given previous_sibling, returned w.ret; an apply that
\* panicked returned nothing and the assignment is not reached.
Returned(w, i, previous_sibling) ==
    IF w.panic # "none" THEN w
    ELSE Log(w, Ev("leftDone", i, previous_sibling, [t |-> "host", id |-> w.ret]))

\* One round of the loop, at position i.
ProcessChild(p, lefts, rights, i) ==
    IF p.w.panic # "none" THEN p
    ELSE IF i <= Len(lefts) /\ i <= Len(rights)
    THEN Applied(Returned(VNodeApply(Log(p.w, Ev("leftApply", i, i, rights[i])),
                                     lefts[i], p.ps, rights[i]),
                          i, p.ps))
    ELSE IF i <= Len(lefts)
    THEN Applied(Returned(VNodeApply(Log(p.w, Ev("leftApply", i, 0, NoVNode)),
                                     lefts[i], p.ps, NoVNode),
                          i, p.ps))
    ELSE Round(ChildDetach(Log(p.w, Ev("rightDetach", i, 0, rights[i])), rights[i]),
               p.ps)

\* (None, None) => break; the call returns previous_sibling.
FinishDrops(p) == SetRet(p.w, 0)
Finish(p) == SetRet(p.w, p.ps)

\* The loop runs until both iterators are exhausted.
ProcessChildren(w, lefts, rights, previous_sibling) ==
    LET n == IF Len(lefts) >= Len(rights) THEN Len(lefts) ELSE Len(rights)
        round[i \in 0..n] ==
            IF i = 0 THEN Round(w, previous_sibling)
            ELSE ProcessChild(round[i - 1], lefts, rights, i)
    IN  Finish(round[n])

\* let mut rights = ...; the placeholder step; the loop over lefts and rights.
RunLoop(w, l, rights, previous_sibling) ==
    ProcessChildren(w, w.lchildren[l], rights, previous_sibling)

VListApply(w, l, no_siblings, previous_sibling, ancestor) ==
    RunLoop(PushPlaceholder(IF ancestor.t = "list"
                            THEN [w EXCEPT !.lchildren[ancestor.id] = <<>>]
                            ELSE w,
                            l, no_siblings),
            l, Rights(w, ancestor), previous_sibling)

\* ------------------------------------------------------------ callbacks
\* The closure built by Transformer<PARENT, F, Callback<IN>>::transform, invoked:
\* the message goes to the parent's mailbox when the scope holder is filled,
\* the program panics otherwise.
CallbackInvokeDrops(w, c) ==
    IF w.holder[w.href[c]]
    THEN Log([w EXCEPT !.mailbox = @ + 1], Ev("send_message", c, 0, NoVNode))
    ELSE w

CallbackInvoke(w, c) ==
    IF w.holder[w.href[c]]
    THEN Log([w EXCEPT !.mailbox = @ + 1], Ev("send_message", c, 0, NoVNode))
    ELSE Fail(w, "not_activated")

\* The same closure as built by Transformer<PARENT, F, Option<Callback<IN>>>::transform.
OptionCallbackInvoke(w, c) ==
    IF w.holder[w.href[c]]
    THEN Log([w EXCEPT !.mailbox = @ + 1], Ev("send_message", c, 0, NoVNode))
    ELSE Fail(w, "not_activated")

\* ------------------------------------------------------------ the calls
Range(s) == {s[i] : i \in 1..Len(s)}

\* What a call found: the state before it.
Pre == [cstate |-> cstate, mounted |-> mounted, inst |-> inst, holder |-> holder,
        mailbox |-> mailbox, host |-> host, lchildren |-> lchildren, tref |-> tref,
        lstate |-> lstate, cell |-> cell]

\* A call: its arguments, the state before it, its effects in order, its result.
Call(op, target, ancestor, previous_sibling, w) ==
    [op |-> op, target |-> target, anc |-> ancestor, ps |-> previous_sibling,
     ret |-> w.ret, ev |-> w.ev, seen |-> w.seen, pre |-> Pre]

NoCall == [op |-> "init", target |-> NoVNode, anc |-> NoVNode, ps |-> 0,
           ret |-> 0, ev |-> <<>>, seen |-> <<>>, pre |-> <<>>]

\* The kinds of the component nodes a node is made of, and its no_siblings flag.
KindsOf(children) ==
    LET comps == SelectSeq(children, LAMBDA v : v.t = "comp")
    IN  [i \in 1..Len(comps) |-> kind[comps[i].id]]

Shape(v) ==
    IF v.t = "comp" THEN [no_siblings |-> FALSE, kinds |-> <<kind[v.id]>>]
    ELSE IF v.t = "list"
    THEN [no_siblings |-> lnosib[v.id], kinds |-> KindsOf(lchildren[v.id])]
    ELSE [no_siblings |-> FALSE, kinds |-> <<>>]

NoRound == [op |-> "none", target |-> NoVNode, ps |-> 0, ret |-> 0,
            host0 |-> <<>>, host1 |-> <<>>, nmount |-> 0, fresh |-> FALSE,
            shape |-> [no_siblings |-> FALSE, kinds |-> <<>>], age |-> 0]

\* `prev` keeps the call before `last` when the two are apply(n, no ancestor)
\* followed by detach(n) of the same node (age 0), keeps it over one more
\* apply with no ancestor (age 1), and keeps nothing otherwise; `fresh` says
\* that n had not been applied before.
RoundTrip(call) ==
    IF /\ call.op = "detach"
       /\ last.op = "apply"
       /\ last.target = call.target
       /\ last.anc = NoVNode
    THEN [op |-> "apply", target |-> last.target, ps |-> last.ps, ret |-> last.ret,
          host0 |-> last.pre.host, host1 |-> host,
          nmount |-> Cardinality({i \in 1..Len(last.ev) : last.ev[i].e = "mount"}),
          fresh |-> IF last.target.t = "comp"
                    THEN last.pre.cstate[last.target.id] = "Unmounted"
                    ELSE /\ last.pre.lstate[last.target.id] = "Built"
                         /\ \A v \in Range(last.pre.lchildren[last.target.id]) :
                                v.t = "comp" /\ last.pre.cstate[v.id] = "Unmounted",
          shape |-> Shape(last.target), age |-> 0]
    ELSE IF prev.op = "apply" /\ prev.age = 0 /\ call.op = "apply" /\ call.anc = NoVNode
    THEN [prev EXCEPT !.age = 1]
    ELSE NoRound

Commit(w, call) ==
    /\ cstate' = w.cstate
    /\ kind' = w.kind
    /\ mounted' = w.mounted
    /\ nref' = w.nref
    /\ href' = w.href
    /\ holder' = w.holder
    /\ cell' = w.cell
    /\ inst' = w.inst
    /\ host' = w.host
    /\ lchildren' = w.lchildren
    /\ tref' = w.tref
    /\ nTexts' = w.nTexts
    /\ mailbox' = w.mailbox
    /\ panic' = w.panic
    /\ last' = call
    /\ prev' = RoundTrip(call)

\* The call op left the world w.
Done(w, op, target, ancestor, previous_sibling) ==
    Commit(w, Call(op, target, ancestor, previous_sibling, w))

FreeComps == {c \in Comps : cstate[c] = "Absent"}
\* A TypeId is only ever compared for equality: the types are numbered in the
\* order in which nodes of them are first constructed.
UsedKinds == {kind[c] : c \in Comps} \ {0}
NewKinds == {k \in Kinds : \A j \in 1..(k - 1) : j \in UsedKinds}
FreeLists == {l \in Lists : lstate[l] = "Absent"}
HeldComps == {c \in Comps : cheld[c]}
HeldLists == {l \in Lists : lstate[l] \in {"Built", "Applied"}}
HostArgs == {0} \cup Range(host)
\* A previous_sibling that precedes every virtual node: none, or a host child
\* that belongs to no virtual node.
LeadingArgs == {0} \cup {i \in 1..MaxForeign : i \in Range(host)}

\* An ancestor is passed by value: the caller's handle is gone after the call.
MoveAncestor(ancestor) ==
    /\ cheld' = [c \in Comps |-> cheld[c] /\ ~(ancestor.t = "comp" /\ ancestor.id = c)]
    /\ lstate' = [l \in Lists |->
                    IF ancestor.t = "list" /\ ancestor.id = l THEN "Moved" ELSE lstate[l]]

Ancestors(self) ==
    ({NoVNode} \cup {CompRef(c) : c \in HeldComps} \cup {ListRef(l) : l \in HeldLists})
    \ {self}

Init ==
    /\ cstate = [c \in Comps |-> "Absent"]
    /\ kind = [c \in Comps |-> 0]
    /\ mounted = [c \in Comps |-> NoPayload]
    /\ nref = [c \in Comps |-> 0]
    /\ href = [c \in Comps |-> 0]
    /\ holder = [c \in Comps |-> FALSE]
    /\ cheld = [c \in Comps |-> FALSE]
    /\ cell = [c \in Comps |-> 0]
    /\ inst = [c \in Comps |-> [life |-> "none", updates |-> 0]]
    /\ host = [i \in 1..MaxForeign |-> i]
    /\ lstate = [l \in Lists |-> "Absent"]
    /\ lnosib = [l \in Lists |-> FALSE]
    /\ lchildren = [l \in Lists |-> <<>>]
    /\ tref = [t \in Texts |-> 0]
    /\ nTexts = 0
    /\ mailbox = 0
    /\ panic = "none"
    /\ last = NoCall
    /\ prev = NoRound

\* The NodeRefs and scope holders a caller can pass to VComp::new: a new one (0)
\* or a clone of one that an earlier node was constructed with.
RefArgs == {0} \cup {nref[x] : x \in Comps \ FreeComps}
HolderArgs == {0} \cup {href[x] : x \in Comps \ FreeComps}
NewOr(x, c) == IF x = 0 THEN c ELSE x

\* VComp::new::<SELF>(props, scope_holder, node_ref)
NewVComp(k, node_ref, scope_holder) ==
    /\ panic = "none"
    /\ FreeComps # {}
    /\ LET c == CHOOSE x \in FreeComps : \A y \in FreeComps : x <= y
       IN  /\ Commit([World EXCEPT !.cstate[c] = "Unmounted", !.kind[c] = k,
                                   !.nref[c] = NewOr(node_ref, c),
                                   !.href[c] = NewOr(scope_holder, c)],
                     Call("new", CompRef(c), NoVNode, 0, World))
           /\ cheld' = [cheld EXCEPT ![c] = TRUE]
    /\ UNCHANGED <<lstate, lnosib>>

\* vcomp.apply(parent, previous_sibling, ancestor, parent_scope)
ApplyComp(c, previous_sibling, ancestor) ==
    /\ panic = "none"
    /\ cheld[c]
    /\ Done(VCompApply(World, c, previous_sibling, ancestor),
            "apply", CompRef(c), ancestor, previous_sibling)
    /\ MoveAncestor(ancestor)
    /\ UNCHANGED lnosib

\* vcomp.detach(parent)
DetachComp(c) ==
    /\ panic = "none"
    /\ cheld[c]
    /\ Done(VCompDetach(World, c), "detach", CompRef(c), NoVNode, 0)
    /\ UNCHANGED <<cheld, lstate, lnosib>>

\* callback.emit(arg) on a Callback<IN> made for component node c's properties
InvokeCallback(c) ==
    /\ panic = "none"
    /\ cstate[c] # "Absent"
    /\ mailbox < MaxMsgs
    /\ Done(CallbackInvoke(World, c), "callback", CompRef(c), NoVNode, 0)
    /\ UNCHANGED <<cheld, lstate, lnosib>>

InvokeOptionCallback(c) ==
    /\ panic = "none"
    /\ cstate[c] # "Absent"
    /\ mailbox < MaxMsgs
    /\ Done(OptionCallbackInvoke(World, c), "option_callback", CompRef(c), NoVNode, 0)
    /\ UNCHANGED <<cheld, lstate, lnosib>>

\* VList::new(no_siblings)
NewVList(no_siblings) ==
    /\ panic = "none"
    /\ FreeLists # {}
    /\ LET l == CHOOSE x \in FreeLists : \A y \in FreeLists : x <= y
       IN  /\ Commit(World, Call("new", ListRef(l), NoVNode, 0, World))
           /\ lstate' = [lstate EXCEPT ![l] = "Built"]
           /\ lnosib' = [lnosib EXCEPT ![l] = no_siblings]
    /\ UNCHANGED cheld

\* vlist.add_child(child) with a component node the caller holds
AddChild(l, c) ==
    /\ panic = "none"
    /\ lstate[l] \in {"Built", "Applied"}
    /\ cheld[c]
    /\ Commit([World EXCEPT !.lchildren[l] = Append(@, CompRef(c))],
              Call("add_child", ListRef(l), CompRef(c), 0, World))
    /\ cheld' = [cheld EXCEPT ![c] = FALSE]
    /\ UNCHANGED <<lstate, lnosib>>

\* The Vec<VNode> of a list is reached through DerefMut (and the pub field
\* children): the caller can edit it at any time, also after an apply.
SwapAt(s, i, j) == [s EXCEPT ![i] = s[j], ![j] = s[i]]

\* vlist.insert(index, child) with a component node the caller holds; index is
\* i - 1, Vec::insert panics on an index beyond the length.
InsertChild(l, i, c) ==
    /\ panic = "none"
    /\ lstate[l] \in {"Built", "Applied"}
    /\ cheld[c]
    /\ i \in 1..(Len(lchildren[l]) + 1)
    /\ Commit([World EXCEPT !.lchildren[l] = InsertAt(@, i, CompRef(c))],
              Call("insert", ListRef(l), CompRef(c), 0, World))
    /\ cheld' = [cheld EXCEPT ![c] = FALSE]
    /\ UNCHANGED <<lstate, lnosib>>

\* vlist.remove(index): the child is handed back to the caller, who drops a
\* placeholder; vlist.pop() is the removal of the last child.
RemoveAtIndex(l, i) ==
    /\ panic = "none"
    /\ lstate[l] \in {"Built", "Applied"}
    /\ i \in 1..Len(lchildren[l])
    /\ Commit([World EXCEPT !.lchildren[l] = RemoveAt(@, i)],
              Call("remove", ListRef(l), lchildren[l][i], 0, World))
    /\ cheld' = [c \in Comps |-> cheld[c] \/ lchildren[l][i] = CompRef(c)]
    /\ UNCHANGED <<lstate, lnosib>>

PopChild(l) ==
    /\ lchildren[l] # <<>>
    /\ RemoveAtIndex(l, Len(lchildren[l]))

\* vlist.swap(a, b)
SwapChildren(l, i, j) ==
    /\ panic = "none"
    /\ lstate[l] \in {"Built", "Applied"}
    /\ i \in 1..Len(lchildren[l])
    /\ j \in 1..Len(lchildren[l])
    /\ i < j
    /\ Commit([World EXCEPT !.lchildren[l] = SwapAt(@, i, j)],
              Call("swap", ListRef(l), NoVNode, 0, World))
    /\ UNCHANGED <<cheld, lstate, lnosib>>

\* vlist.clear(): the children are dropped where they stand.  VComp has no
\* Drop: a Mounted child keeps its instance and its host node, and no node
\* holds them any longer.
ClearChildren(l) ==
    /\ panic = "none"
    /\ lstate[l] \in {"Built", "Applied"}
    /\ lchildren[l] # <<>>
    /\ Commit([World EXCEPT !.lchildren[l] = <<>>],
              Call("clear", ListRef(l), NoVNode, 0, World))
    /\ UNCHANGED <<cheld, lstate, lnosib>>

\* vlist.no_siblings = b (pub field)
SetNoSiblings(l, b) ==
    /\ panic = "none"
    /\ lstate[l] \in {"Built", "Applied"}
    /\ lnosib[l] # b
    /\ Commit(World, Call("no_siblings", ListRef(l), NoVNode, 0, World))
    /\ lnosib' = [lnosib EXCEPT ![l] = b]
    /\ UNCHANGED <<cheld, lstate>>

\* vlist.apply(parent, previous_sibling, ancestor, parent_scope)
ApplyList(l, previous_sibling, ancestor) ==
    /\ panic = "none"
    /\ lstate[l] \in {"Built", "Applied"}
    /\ (lchildren[l] = <<>> /\ ~lnosib[l]) => nTexts < MaxTexts
    /\ Done(VListApply(World, l, lnosib[l], previous_sibling, ancestor),
            "apply", ListRef(l), ancestor, previous_sibling)
    /\ cheld' = [c \in Comps |-> cheld[c] /\ ~(ancestor.t = "comp" /\ ancestor.id = c)]
    /\ lstate' = [x \in Lists |->
                    IF x = l THEN "Applied"
                    ELSE IF ancestor.t = "list" /\ ancestor.id = x THEN "Moved"
                    ELSE lstate[x]]
    /\ UNCHANGED lnosib

\* vlist.detach(parent)
DetachList(l) ==
    /\ panic = "none"
    /\ lstate[l] \in {"Built", "Applied"}
    /\ Done(VListDetach(World, l), "detach", ListRef(l), NoVNode, 0)
    /\ UNCHANGED <<cheld, lstate, lnosib>>

\* Component nodes applied and detached on their own.
Next ==
    \/ \E k \in NewKinds, r \in RefArgs :
           NewVComp(k, r, 0) /\ Cardinality(Comps \ FreeComps) < MaxSolo
    \/ \E c \in Comps, ps \in LeadingArgs : \E a \in Ancestors(CompRef(c)) : ApplyComp(c, ps, a)
    \/ \E c \in Comps : DetachComp(c)

Spec == Init /\ [][Next]_vars

\* A render: lists are built one after the other, each child constructed and
\* pushed in turn, and a built list is applied once, over no ancestor or over
\* an earlier list.
NextList ==
    \/ \E k \in NewKinds :
           /\ NewVComp(k, 0, 0)
           /\ HeldComps = {}
           /\ \E l \in Lists : lstate[l] = "Built"
    \/ \E ns \in BOOLEAN : NewVList(ns) /\ HeldComps = {}
    \/ \E l \in Lists, c \in Comps :
           /\ AddChild(l, c)
           /\ lstate[l] = "Built"
           /\ \A x \in Lists : x > l => lstate[x] = "Absent"
    \/ \E l \in Lists, ps \in HostArgs : \E a \in Ancestors(ListRef(l)) :
           /\ ApplyList(l, ps, a)
           /\ lstate[l] = "Built"
           /\ HeldComps = {}
    \/ \E l \in Lists : DetachList(l) /\ HeldComps = {}

SpecList == Init /\ [][NextList]_vars

\* Lists that their caller keeps using: children are pushed, inserted, removed,
\* swapped and cleared, no_siblings is reassigned, the lists are applied, over
\* no ancestor or over one another, and detached, in any order and any number
\* of times.
Edited == Cardinality(Comps \ FreeComps) + Cardinality(Lists \ FreeLists)

NextReuse ==
    \/ \E k \in NewKinds, r \in RefArgs :
           /\ NewVComp(k, r, 0)
           /\ HeldComps = {}
           /\ Edited < MaxEdited
    \/ \E ns \in BOOLEAN : NewVList(ns) /\ Edited < MaxEdited
    \/ \E l \in Lists, c \in Comps : AddChild(l, c)
    \/ \E l \in Lists, c \in Comps, i \in 1..MaxComps : InsertChild(l, i, c)
    \/ \E l \in Lists, i \in 1..(MaxComps + MaxTexts) :
           RemoveAtIndex(l, i) /\ i < Len(lchildren[l])
    \/ \E l \in Lists : PopChild(l)
    \/ \E l \in Lists, i, j \in 1..(MaxComps + MaxTexts) : SwapChildren(l, i, j)
    \/ \E l \in Lists : ClearChildren(l)
    \/ \E l \in Lists, b \in BOOLEAN : SetNoSiblings(l, b)
    \/ \E l \in Lists, ps \in LeadingArgs : \E a \in Ancestors(ListRef(l)) : ApplyList(l, ps, a)
    \/ \E l \in Lists : DetachList(l)

SpecReuse == Init /\ [][NextReuse]_vars

\* Lists rendered between two host children that belong to no virtual node:
\* the first precedes every list, the second follows it.
HostOfTrailing(i) == MaxForeign + MaxComps + MaxTexts + i

InitSiblings ==
    /\ cstate = [c \in Comps |-> "Absent"]
    /\ kind = [c \in Comps |-> 0]
    /\ mounted = [c \in Comps |-> NoPayload]
    /\ nref = [c \in Comps |-> 0]
    /\ href = [c \in Comps |-> 0]
    /\ holder = [c \in Comps |-> FALSE]
    /\ cheld = [c \in Comps |-> FALSE]
    /\ cell = [c \in Comps |-> 0]
    /\ inst = [c \in Comps |-> [life |-> "none", updates |-> 0]]
    /\ host = [i \in 1..MaxForeign |-> i] \o [i \in 1..MaxTrailing |-> HostOfTrailing(i)]
    /\ lstate = [l \in Lists |-> "Absent"]
    /\ lnosib = [l \in Lists |-> FALSE]
    /\ lchildren = [l \in Lists |-> <<>>]
    /\ tref = [t \in Texts |-> 0]
    /\ nTexts = 0
    /\ mailbox = 0
    /\ panic = "none"
    /\ last = NoCall
    /\ prev = NoRound

NextSiblings ==
    \/ \E k \in NewKinds, r \in RefArgs :
           /\ NewVComp(k, r, 0)
           /\ HeldComps = {}
           /\ Cardinality(Comps \ FreeComps) < MaxSolo
           /\ \E l \in Lists : lstate[l] = "Built"
    \/ \E ns \in BOOLEAN : NewVList(ns) /\ HeldComps = {}
    \/ \E l \in Lists, c \in Comps :
           /\ AddChild(l, c)
           /\ lstate[l] = "Built"
           /\ \A x \in Lists : x > l => lstate[x] = "Absent"
    \/ \E l \in Lists, ps \in LeadingArgs : \E a \in Ancestors(ListRef(l)) :
           /\ ApplyList(l, ps, a)
           /\ lstate[l] = "Built"
           /\ HeldComps = {}
    \/ \E l \in Lists : DetachList(l) /\ HeldComps = {}

SpecSiblings == InitSiblings /\ [][NextSiblings]_vars

\* Component nodes, appended to the host parent, and the callbacks made for
\* their properties.
NextCallback ==
    \/ \E k \in NewKinds, h \in HolderArgs :
           NewVComp(k, 0, h) /\ Cardinality(Comps \ FreeComps) < MaxSolo
    \/ \E c \in Comps : \E a \in Ancestors(CompRef(c)) : ApplyComp(c, 0, a)
    \/ \E c \in Comps : DetachComp(c)
    \/ \E c \in Comps : InvokeCallback(c)
    \/ \E c \in Comps : InvokeOptionCallback(c)

SpecCallback == Init /\ [][NextCallback]_vars

\* ------------------------------------------------------------ properties
\* Every property reads the record of the latest call: `last.pre` is the state
\* the call found, the variables are the state it left.
Count(ev, e) == Cardinality({i \in 1..Len(ev) : ev[i].e = e})
Events(ev, e) == {i \in 1..Len(ev) : ev[i].e = e}

\* The latest call was op on component node c.
CompCall(op, c) == last.op = op /\ last.target = CompRef(c)

\* The latest call was op on list l.
ListCall(op, l) == last.op = op /\ last.target = ListRef(l)

\* The host node the instance i occupies: the root that took the place of the
\* placeholder created when node i mounted it.
Occupied(i) == HostOfComp(i)

Max(x, y) == IF x >= y THEN x ELSE y
Min(x, y) == IF x <= y THEN x ELSE y

\* C1: apply of an Unmounted component node over a Mounted ancestor component
\* node of the same kind runs no teardown and no fresh mount, and the node ends
\* Mounted holding the instance the ancestor held before the call, still alive.
C1_ReuseKeepsInstance ==
    \A n \in Comps, a \in Comps :
      (/\ CompCall("apply", n)
       /\ last.anc = CompRef(a)
       /\ last.pre.cstate[n] = "Unmounted"
       /\ last.pre.cstate[a] = "Mounted"
       /\ kind[n] = kind[a])
      => /\ Count(last.ev, "teardown") = 0
         /\ Count(last.ev, "mount") = 0
         /\ cstate[n] = "Mounted"
         /\ mounted[n].scope = last.pre.mounted[a].scope
         /\ inst[mounted[n].scope].life = "alive"
         /\ panic = "none"

C1_Witness ==
    /\ last.op = "apply"
    /\ last.target.t = "comp"
    /\ last.anc.t = "comp"
    /\ kind[last.target.id] = kind[last.anc.id]
    /\ last.pre.cstate[last.anc.id] = "Mounted"
    /\ cstate[last.anc.id] = "Overwritten"
    /\ cstate[last.target.id] = "Mounted"
    /\ mounted[last.target.id].scope = last.anc.id
    /\ Count(last.ev, "update") = 1

\* C2: apply of an Unmounted component node of kind K over a Mounted ancestor
\* component node of another kind runs exactly one teardown, of the ancestor's
\* instance, then exactly one fresh mount, of a new instance of kind K, and no
\* property update.
C2_ReplaceOnKindChange ==
    \A n \in Comps, a \in Comps :
      (/\ CompCall("apply", n)
       /\ last.anc = CompRef(a)
       /\ last.pre.cstate[n] = "Unmounted"
       /\ last.pre.cstate[a] = "Mounted"
       /\ kind[n] # kind[a])
      => LET old == last.pre.mounted[a].scope
         IN  /\ Count(last.ev, "teardown") = 1
             /\ Count(last.ev, "mount") = 1
             /\ Count(last.ev, "update") = 0
             /\ \A i \in Events(last.ev, "teardown"), j \in Events(last.ev, "mount") :
                  /\ i < j
                  /\ last.ev[i].x = old
                  /\ last.pre.inst[last.ev[j].x].life = "none"
                  /\ inst[last.ev[j].x].life = "alive"
                  /\ mounted[n].scope = last.ev[j].x
             /\ inst[old].life = "destroyed"
             /\ inst[old].updates = last.pre.inst[old].updates

\* The scenario of C3 after the call that applied the new list l over the old
\* list o: o = [A(kind 1), B(kind 2)] had been applied on its own (A and B had
\* mounted their own instances), l = [A'(kind 1), C(kind 3)] was new.
C3_Scenario(l, o) ==
    /\ ListCall("apply", l)
    /\ last.anc = ListRef(o)
    /\ Len(last.pre.lchildren[o]) = 2
    /\ Len(last.pre.lchildren[l]) = 2
    /\ \A i \in 1..2 : last.pre.lchildren[o][i].t = "comp" /\ last.pre.lchildren[l][i].t = "comp"
    /\ LET A == last.pre.lchildren[o][1].id
           B == last.pre.lchildren[o][2].id
           A2 == last.pre.lchildren[l][1].id
           C == last.pre.lchildren[l][2].id
       IN  /\ kind[A] = 1 /\ kind[B] = 2 /\ kind[A2] = 1 /\ kind[C] = 3
           /\ last.pre.cstate[A] = "Mounted" /\ last.pre.mounted[A].scope = A
           /\ last.pre.cstate[B] = "Mounted" /\ last.pre.mounted[B].scope = B
           /\ last.pre.cstate[A2] = "Unmounted" /\ last.pre.cstate[C] = "Unmounted"

\* C3: applying [A'(kind 1), C(kind 3)] over the applied list [A(kind 1), B(kind 2)]
\* reuses A's instance for A' without a teardown of it, tears B's instance down and
\* then mounts C, and C's node takes the place of B's node right after A's node.
C3_ListScenario ==
    \A l \in Lists, o \in Lists :
      C3_Scenario(l, o)
      => LET A == last.pre.lchildren[o][1].id
             B == last.pre.lchildren[o][2].id
             A2 == last.pre.lchildren[l][1].id
             C == last.pre.lchildren[l][2].id
             ev == last.ev
             host0 == last.pre.host
         IN  /\ panic = "none"
             /\ cstate[A2] = "Mounted" /\ mounted[A2].scope = A
             /\ inst[A].life = "alive" /\ inst[A].updates = last.pre.inst[A].updates + 1
             /\ Count(ev, "teardown") = 1 /\ Count(ev, "mount") = 1
             /\ \A i \in Events(ev, "teardown"), j \in Events(ev, "mount") :
                  ev[i].x = B /\ ev[j].x = C /\ i < j
             /\ inst[B].life = "destroyed" /\ cstate[B] = "Detached"
             /\ cstate[C] = "Mounted" /\ inst[C].life = "alive"
             /\ host = [i \in 1..Len(host0) |->
                          IF host0[i] = Occupied(B) THEN Occupied(C) ELSE host0[i]]
             /\ IndexOf(host, Occupied(A)) > 0
             /\ IndexOf(host, Occupied(C)) = IndexOf(host, Occupied(A)) + 1

C3_Witness ==
    /\ \E l \in Lists, o \in Lists : C3_Scenario(l, o)
    /\ KindsOf(lchildren[last.target.id]) = <<1, 3>>
    /\ Count(last.ev, "update") = 1
    /\ Count(last.ev, "teardown") = 1
    /\ Count(last.ev, "mount") = 1
    /\ \E i \in 1..Len(host) : i < Len(host) /\ host[i + 1] = cell[nref[lchildren[last.target.id][2].id]]

\* The counts of C4 for a list apply with m new children over n old children.
C4_Counts(ev, rights, m) ==
    LET n == Len(rights)
    IN  /\ Count(ev, "rightDetach") = Max(0, n - m)
        /\ Cardinality({i \in Events(ev, "leftApply") : ev[i].v = NoVNode}) = Max(0, m - n)
        /\ Cardinality({i \in Events(ev, "leftApply") : ev[i].v # NoVNode}) = Min(m, n)
        /\ \A p \in 1..Min(m, n) :
             Cardinality({i \in Events(ev, "leftApply") : ev[i].x = p /\ ev[i].v = rights[p]}) = 1

\* C4 as stated: the counts with m the number of children the new list was given.
C4_CountsAsStated ==
    \A l \in Lists, o \in Lists :
      (ListCall("apply", l) /\ last.anc = ListRef(o) /\ panic = "none")
      => C4_Counts(last.ev, last.pre.lchildren[o], Len(last.pre.lchildren[l]))

\* C4, amended: applying a list over an ancestor list with n children makes exactly
\* max(0, n-m) child detach calls, max(0, m-n) child applies without ancestor and
\* min(m, n) child applies with the old child of the same position as ancestor,
\* where m is the number of children after the placeholder step (1 for an empty
\* list whose no_siblings is false); an apply that ends in a fatal failure of a
\* child (the removal failure, a placeholder applied a second time) stops
\* where it failed.
C4_CountsAfterPlaceholder ==
    \A l \in Lists, o \in Lists :
      (ListCall("apply", l) /\ last.anc = ListRef(o) /\ panic = "none")
      => /\ Len(lchildren[l]) = IF last.pre.lchildren[l] = <<>> /\ ~lnosib[l] THEN 1
                                ELSE Len(last.pre.lchildren[l])
         /\ C4_Counts(last.ev, last.pre.lchildren[o], Len(lchildren[l]))

C4_Witness ==
    /\ last.op = "apply"
    /\ last.target.t = "list"
    /\ last.anc.t = "list"
    /\ last.pre.lchildren[last.target.id] = <<>>
    /\ Len(last.pre.lchildren[last.anc.id]) = 2
    /\ lchildren[last.target.id] # <<>>
    /\ lchildren[last.target.id][1].t = "text"
    /\ Count(last.ev, "rightDetach") = 1
    /\ Cardinality({i \in Events(last.ev, "leftApply") : last.ev[i].v.t = "comp"}) = 1

\* An applied empty list, as the call found it: its only child is the placeholder.
IsAppliedEmpty(o) ==
    /\ last.pre.lstate[o] = "Applied"
    /\ Len(last.pre.lchildren[o]) = 1
    /\ last.pre.lchildren[o][1].t = "text"

\* C5: an empty list with no_siblings = false, applied with no ancestor or over
\* an applied empty list, has exactly one host node afterwards, its placeholder,
\* which is a child of the host parent exactly once; over an applied empty list
\* it is the ancestor's placeholder and the host parent's children do not change.
C5_EmptyListOnePlaceholder ==
    \A l \in Lists :
      (/\ ListCall("apply", l)
       /\ last.pre.lchildren[l] = <<>>
       /\ ~lnosib[l]
       /\ (last.anc = NoVNode \/ (last.anc.t = "list" /\ IsAppliedEmpty(last.anc.id))))
      => /\ panic = "none"
         /\ Len(lchildren[l]) = 1
         /\ lchildren[l][1].t = "text"
         /\ LET node == tref[lchildren[l][1].id]
            IN  /\ node # 0
                /\ Cardinality({i \in 1..Len(host) : host[i] = node}) = 1
                /\ last.ret = node
                /\ IF last.anc = NoVNode
                   THEN /\ Len(host) = Len(last.pre.host) + 1
                        /\ node \notin Range(last.pre.host)
                   ELSE /\ host = last.pre.host
                        /\ node = last.pre.tref[last.pre.lchildren[last.anc.id][1].id]

C5_Witness ==
    /\ last.op = "apply"
    /\ last.target.t = "list"
    /\ last.anc.t = "list"
    /\ last.pre.lchildren[last.target.id] = <<>>
    /\ Len(last.ev) = 2
    /\ last.ev[1] = [e |-> "leftApply", x |-> 1, y |-> 1, v |-> TextRef(1)]
    /\ last.ev[2].e = "leftDone"
    /\ lchildren[last.target.id] = <<TextRef(2)>>
    /\ tref[2] = HostOfText(1)
    /\ HostOfText(1) \in Range(host)

\* C6 as stated: apply with no ancestor of any component node or list of
\* component nodes, immediately followed by detach of the same node, leaves the
\* host parent with exactly the children it had before the apply.
C6_AnyNodeRoundTrip ==
    (prev.op = "apply" /\ prev.age = 0)
    => (host = prev.host0 /\ panic = "none")

\* The latest call applied node v with no ancestor right after a round trip
\* (apply with no ancestor, then detach) of a node of the same shape, with the
\* same previous sibling.
C7_AfterRoundTrip(v) ==
    /\ prev.op = "apply"
    /\ prev.age = 1
    /\ prev.fresh
    /\ last.op = "apply"
    /\ last.target = v
    /\ last.anc = NoVNode
    /\ last.ps = prev.ps
    /\ Shape(v) = prev.shape

\* The latest apply did what the first apply of the round trip did: new host
\* nodes at the same positions, as many mounts, a result at the same position.
C7_Identically ==
    /\ panic = "none"
    /\ Len(host) = Len(prev.host1)
    /\ \A i \in 1..Len(host) :
         \/ host[i] = prev.host1[i] /\ host[i] \in Range(last.pre.host)
         \/ host[i] \notin Range(last.pre.host) /\ prev.host1[i] \notin Range(prev.host0)
    /\ Count(last.ev, "mount") = prev.nmount
    /\ IndexOf(host, last.ret) = IndexOf(prev.host1, prev.ret)
    /\ (last.ret = 0) <=> (prev.ret = 0)

\* C7 as stated: after the round trip, the same node is applied again and the
\* apply succeeds as the first one did.
C7_SameNodeAgain ==
    \A v \in {CompRef(c) : c \in Comps} \cup {ListRef(l) : l \in Lists} :
      (C7_AfterRoundTrip(v) /\ v = prev.target) => C7_Identically

\* C7, amended: after apply with no ancestor followed by detach, applying a newly
\* constructed node of the same shape (the same kind; for a list the same
\* no_siblings and children of the same kinds) with no ancestor and the same
\* previous sibling does what the first apply did: it inserts as many host nodes
\* at the same positions, mounts as many components and returns the node at the
\* same position.
C7_FreshNodeAgain ==
    \A v \in {CompRef(c) : c \in Comps} \cup {ListRef(l) : l \in Lists} :
      (/\ C7_AfterRoundTrip(v)
       /\ v # prev.target
       /\ v.t = "comp" => last.pre.cstate[v.id] = "Unmounted"
       /\ v.t = "list" => last.pre.lstate[v.id] = "Built")
      => C7_Identically

C7_Witness ==
    /\ C7_AfterRoundTrip(last.target)
    /\ last.target.t = "comp"
    /\ last.target # prev.target
    /\ last.pre.cstate[last.target.id] = "Unmounted"
    /\ Count(last.ev, "mount") = 1
    /\ IndexOf(host, last.ret) > 0
    /\ IndexOf(host, last.ret) < Len(host)
    /\ last.ret \notin Range(prev.host1)

\* C8: a Transformer-built callback invoked while its scope holder is empty ends
\* in the "not yet activated" failure with nothing sent, and invoked while the
\* holder is filled it puts exactly one message in the parent's mailbox.
C8_CallbackNeverDrops ==
    \A c \in Comps :
      (CompCall("callback", c) \/ CompCall("option_callback", c))
      => IF last.pre.holder[href[c]]
         THEN mailbox = last.pre.mailbox + 1 /\ panic = "none"
         ELSE mailbox = last.pre.mailbox /\ panic = "not_activated"

C8_Witness ==
    /\ last.op = "callback"
    /\ ~last.pre.holder[href[last.target.id]]
    /\ panic = "not_activated"
    /\ mailbox = 0

\* The other half of C8: the holder was filled and one message was sent.
C8_WitnessSent ==
    /\ last.op = "option_callback"
    /\ last.pre.holder[href[last.target.id]]
    /\ panic = "none"
    /\ mailbox = 1

\* C9: apply on a component node that is not Unmounted returns nothing, leaves
\* the node's state as it was, runs no generator and no teardown, and changes no
\* child of the host parent.
C9_ApplyNoOp ==
    \A n \in Comps :
      (CompCall("apply", n) /\ last.pre.cstate[n] # "Unmounted")
      => /\ last.ret = 0
         /\ cstate[n] = last.pre.cstate[n]
         /\ last.ev = <<>>
         /\ host = last.pre.host
         /\ inst = last.pre.inst
         /\ mounted = last.pre.mounted
         /\ holder = last.pre.holder
         /\ panic = "none"

C9_Witness ==
    /\ last.op = "apply"
    /\ last.target.t = "comp"
    /\ last.anc.t = "comp"
    /\ last.pre.cstate[last.target.id] = "Mounted"
    /\ cstate[last.anc.id] = "Mounted"
    /\ cstate[last.target.id] = "Mounted"
    /\ last.ev = <<>>
    /\ last.ret = 0

\* C10: detach of a Mounted component node runs its teardown once, removes the
\* host node its instance occupies, returns that node's former next sibling and
\* leaves the node Detached; detach in any other state runs no teardown, removes
\* nothing, returns nothing and leaves the node Detached.
C10_DetachRemovesOccupiedNode ==
    \A n \in Comps :
      CompCall("detach", n)
      => IF last.pre.cstate[n] = "Mounted"
         THEN LET node == Occupied(last.pre.mounted[n].scope)
              IN  /\ Count(last.ev, "teardown") = 1
                  /\ inst[last.pre.mounted[n].scope].life = "destroyed"
                  /\ IndexOf(last.pre.host, node) > 0
                  /\ host = RemoveAt(last.pre.host, IndexOf(last.pre.host, node))
                  /\ last.ret = NextSibling(last.pre.host, node)
                  /\ cstate[n] = "Detached"
         ELSE /\ last.ev = <<>>
              /\ host = last.pre.host
              /\ last.ret = 0
              /\ cstate[n] = "Detached"

\* C11: every apply on an Unmounted component node ends with the node Mounted
\* and returns the host node the instance it holds occupies, on the reuse path
\* as on the fresh-mount path.
C11_ApplyReturnsOccupiedNode ==
    \A n \in Comps :
        (/\ CompCall("apply", n)
         /\ last.pre.cstate[n] = "Unmounted"
         /\ panic = "none")
        => /\ cstate[n] = "Mounted"
           /\ last.ret = Occupied(mounted[n].scope)
           /\ last.ret \in Range(host)

\* No instance is held by the Mounted payload of two nodes.
OneHolder(cs, mt) ==
    \A a, b \in Comps :
        (cs[a] = "Mounted" /\ cs[b] = "Mounted" /\ mt[a].scope = mt[b].scope)
        => a = b

\* C12: in every state, those found by the user code that runs inside apply
\* and detach included, each instance is held by the Mounted payload of at most
\* one node; when a reused instance is updated its former holder is already
\* Overwritten and the new node is not Mounted yet.
C12_InstanceHeldOnce ==
    /\ OneHolder(cstate, mounted)
    /\ \A j \in 1..Len(last.seen) :
           /\ OneHolder(last.seen[j].cstate, last.seen[j].mounted)
           /\ last.seen[j].at.e = "update"
              => /\ last.seen[j].cstate[last.seen[j].at.y] = "Mounting"
                 /\ \A a \in Comps :
                        (/\ last.pre.cstate[a] = "Mounted"
                         /\ last.pre.mounted[a].scope = last.seen[j].at.x)
                        => last.seen[j].cstate[a] = "Overwritten"

C12_Witness ==
    \E n, a \in Comps :
        /\ CompCall("apply", n)
        /\ last.anc = CompRef(a)
        /\ last.pre.cstate[a] = "Mounted"
        /\ Len(last.seen) = 1
        /\ last.seen[1].at.e = "update"
        /\ last.seen[1].at.x = last.pre.mounted[a].scope
        /\ cstate[n] = "Mounted"
        /\ mounted[n].scope = last.pre.mounted[a].scope
        /\ cstate[a] = "Overwritten"

\* C13: a node becomes Overwritten only from Mounted, and only in an apply that
\* hands its payload to a new node of the same kind: a node that was Unmounted,
\* Mounting or Detached never becomes Overwritten.
C13_OverwrittenOnlyFromMounted ==
    \A c \in Comps :
        (cstate[c] = "Overwritten" /\ last.pre.cstate[c] # "Overwritten")
        => /\ last.pre.cstate[c] = "Mounted"
           /\ last.op = "apply"
           /\ \E n \in Comps \ {c} :
                  /\ kind[n] = kind[c]
                  /\ last.pre.cstate[n] = "Unmounted"
                  /\ cstate[n] = "Mounted"
                  /\ mounted[n].scope = last.pre.mounted[c].scope

\* C14: Detached and Overwritten are terminal: no call, on the node or on any
\* other node, changes the state of a node that is Detached or Overwritten.
C14_TerminalStates ==
    \A c \in Comps :
        (/\ last.op \in {"apply", "detach"}
         /\ last.pre.cstate[c] \in {"Detached", "Overwritten"})
        => cstate[c] = last.pre.cstate[c]

\* The component nodes that are Mounting in the observation o.
MountingIn(o) == {c \in Comps : o.cstate[c] = "Mounting"}

\* C15: Mounting is transient.  Between calls no node is Mounting.  Inside a
\* call, a node is Mounting only while its own apply runs: whenever user code
\* runs in apply (the teardown of the ancestor, the mount or the update of the
\* instance), the node being applied is Mounting already and no other node is.
C15_MountingTransient ==
    /\ \A c \in Comps : cstate[c] # "Mounting"
    /\ \A j \in 1..Len(last.seen) :
           /\ last.seen[j].at.e \in {"mount", "update"}
              => MountingIn(last.seen[j]) = {last.seen[j].at.y}
           /\ (last.op = "apply" /\ last.target.t = "comp")
              => MountingIn(last.seen[j]) = {last.target.id}
           /\ last.op = "detach" => MountingIn(last.seen[j]) = {}
           /\ (last.op = "apply" /\ last.target.t = "list")
              => \A c \in MountingIn(last.seen[j]) :
                     CompRef(c) \in Range(lchildren[last.target.id])

\* C16: the scope holder of a node is empty until its generator runs, is
\* written once over the life of the node, on the mount path and on the reuse
\* path alike, before the instance is mounted or updated, and is filled in
\* every state where the node is Mounted.
C16_HolderWrittenOnce ==
    \A c \in Comps \ FreeComps :
        /\ cstate[c] = "Unmounted" => ~holder[href[c]]
        /\ cstate[c] = "Mounted" => holder[href[c]]
        /\ last.op \in {"apply", "detach"}
           => LET writes == {i \in Events(last.ev, "activate") : last.ev[i].x = c}
                  runs == {i \in 1..Len(last.ev) :
                              /\ last.ev[i].e \in {"mount", "update"}
                              /\ last.ev[i].y = c}
              IN  /\ Cardinality(writes) <= 1
                  /\ Cardinality(writes) = Cardinality(runs)
                  /\ \A i \in writes, j \in runs : i < j
                  /\ writes # {} => /\ ~last.pre.holder[href[c]]
                                     /\ last.pre.cstate[c] = "Unmounted"
                                     /\ cstate[c] = "Mounted"
                  /\ writes = {} => holder[href[c]] = last.pre.holder[href[c]]
                  /\ \A j \in 1..Len(last.seen) :
                         (/\ last.seen[j].at.e \in {"mount", "update"}
                          /\ last.seen[j].at.y = c)
                         => last.seen[j].holder[href[c]]

\* C17: the type mismatch failure of the reuse path is unreachable: whenever
\* the generator of a node is run in overwrite mode, the instance it is given
\* was held by a node of the same kind, and the program never panics with
\* "tried to overwrite a different type of component".
C17_NoTypeMismatch ==
    /\ panic # "overwrite_type"
    /\ \A j \in Events(last.ev, "update") :
           \A a \in Comps :
               (/\ last.pre.cstate[a] = "Mounted"
                /\ last.pre.mounted[a].scope = last.ev[j].x)
               => kind[a] = kind[last.ev[j].y]

C17_Witness ==
    \E l, o \in Lists :
        /\ ListCall("apply", l)
        /\ last.anc = ListRef(o)
        /\ panic = "none"
        /\ Count(last.ev, "update") = 1
        /\ Count(last.ev, "mount") = 1
        /\ \E j \in Events(last.ev, "update"), a \in Comps :
               /\ last.pre.cstate[a] = "Mounted"
               /\ last.pre.mounted[a].scope = last.ev[j].x
               /\ kind[a] = kind[last.ev[j].y]

\* The value the apply of child k returned, in the effects ev of a list apply.
ResultOf(ev, k) ==
    LET i == CHOOSE i \in Events(ev, "leftDone") : ev[i].x = k
    IN  ev[i].v.id

\* C18: a list apply returns what the apply of its last child returned, or the
\* previous_sibling it was given when the list has no children after the
\* placeholder step; every child is given what the child before it returned
\* (the first the incoming previous_sibling), and the detaches of surplus old
\* children change neither.
C18_ListReturnsLastChild ==
    \A l \in Lists :
        (ListCall("apply", l) /\ panic = "none")
        => LET m == Len(lchildren[l])
               done == Events(last.ev, "leftDone")
           IN  /\ Cardinality(done) = m
               /\ \A k \in 1..m : \E i \in done : last.ev[i].x = k
               /\ \A i \in done :
                      last.ev[i].y = IF last.ev[i].x = 1 THEN last.ps
                                     ELSE ResultOf(last.ev, last.ev[i].x - 1)
               /\ last.ret = IF m = 0 THEN last.ps ELSE ResultOf(last.ev, m)

C18_Witness ==
    \E l, o \in Lists :
        /\ ListCall("apply", l)
        /\ last.anc = ListRef(o)
        /\ Len(lchildren[l]) = 1
        /\ Count(last.ev, "rightDetach") = 1
        /\ last.ps # 0
        /\ last.ret # 0
        /\ last.ret # last.ps
        /\ last.ret = ResultOf(last.ev, 1)

C18_WitnessEmpty ==
    \E l \in Lists :
        /\ ListCall("apply", l)
        /\ lchildren[l] = <<>>
        /\ last.ps # 0
        /\ last.ret = last.ps

\* The host node the virtual node v stood for before the latest call.
HostNodeBefore(v) ==
    IF v.t = "comp"
    THEN IF last.pre.cstate[v.id] = "Mounted"
         THEN Occupied(last.pre.mounted[v.id].scope)
         ELSE 0
    ELSE last.pre.tref[v.id]

\* The latest call was given a previous_sibling that fits its ancestor: none,
\* or the host node right before the first node of the applied ancestor list.
SiblingFits ==
    \/ last.ps = 0
    \/ last.anc.t = "none"
    \/ /\ last.anc.t = "list"
       /\ last.pre.lstate[last.anc.id] = "Applied"
       /\ \/ last.pre.lchildren[last.anc.id] = <<>>
          \/ IndexOf(last.pre.host, HostNodeBefore(last.pre.lchildren[last.anc.id][1]))
                = IndexOf(last.pre.host, last.ps) + 1

\* The place in the host parent of the node that child k of list l occupies.
PlaceOf(l, k) == IndexOf(host, Occupied(mounted[lchildren[l][k].id].scope))

\* C19: after a list apply of component children c1..cm over an ancestor list
\* (or over none), the host nodes the children occupy stand in list order, each
\* right after the one before it, and the first right after the incoming
\* previous_sibling when one is given, whatever host siblings follow the list.
C19_ChildrenInOrder ==
    \A l \in Lists :
        (/\ ListCall("apply", l)
         /\ last.pre.lstate[l] = "Built"
         /\ last.anc.t \in {"none", "list"}
         /\ SiblingFits
         /\ panic = "none"
         /\ \A k \in 1..Len(lchildren[l]) : lchildren[l][k].t = "comp")
        => /\ \A k \in 1..Len(lchildren[l]) :
                  /\ cstate[lchildren[l][k].id] = "Mounted"
                  /\ PlaceOf(l, k) # 0
           /\ \A k \in 1..(Len(lchildren[l]) - 1) : PlaceOf(l, k + 1) = PlaceOf(l, k) + 1
           /\ (last.ps # 0 /\ lchildren[l] # <<>>)
              => PlaceOf(l, 1) = IndexOf(host, last.ps) + 1

\* C20: no ancestor is lost by apply.  After an apply of a component node that
\* was given a Mounted ancestor component node, whatever state the new node
\* was in, the instance the ancestor held is either held by the Mounted payload
\* of the new node, or torn down with the host node it occupied removed.
C20_AncestorNotLost ==
    \A n, a \in Comps :
        (/\ CompCall("apply", n)
         /\ last.anc = CompRef(a)
         /\ last.pre.cstate[a] = "Mounted"
         /\ panic = "none")
        => \/ /\ cstate[n] = "Mounted"
              /\ mounted[n].scope = last.pre.mounted[a].scope
              /\ inst[last.pre.mounted[a].scope].life = "alive"
           \/ /\ inst[last.pre.mounted[a].scope].life = "destroyed"
              /\ Occupied(last.pre.mounted[a].scope) \notin Range(host)
====
